---------------------------- MODULE Spec2Model ----------------------------
(***************************************************************************)
(* Ledger and settlement engine of the wagering platform: the Firestore    *)
(* collections 'users', 'rpsRooms', 'rpsRounds' and 'transactions', the     *)
(* player handlers of RpsGame (createRoom, joinRoom, makeChoice, endGame,   *)
(* quitGame) and the operator handlers of UsersAdmin (approveUser,          *)
(* updateUserBalance).                                                      *)
(*                                                                         *)
(* Every Firestore round trip (updateDoc, getDoc, addDoc, batch.commit,     *)
(* runTransaction) is one atomic step; a handler that awaits several of     *)
(* them is several steps, and other clients' steps interleave between       *)
(* them.  Each client acts on the snapshot its onSnapshot listener last     *)
(* delivered, which may be stale.                                           *)
(***************************************************************************)
EXTENDS Integers, Sequences, FiniteSets, TLC

\* ------------------------------------------------------------- bounds --
MaxRooms == 1       \* rooms that may be created in one behaviour
MaxLedger == 6      \* cap on the length of 'transactions'
MaxRounds == 2      \* cap on the length of 'rpsRounds'
MaxAdminCalls == 1  \* cap on the operator's handler calls
MaxLedgerAll == 4   \* cap on the length of 'transactions' when the operator acts too
MaxSettleStake == 21 \* SpecSettle: stakes MinStake..MaxSettleStake, and 100
MaxTime == 3        \* the clock runs 0..MaxTime
MaxPendingLocks == 1 \* lock writes of one card in flight at once
MaxBets == 2        \* cap on the length of 'bets'
MaxAccessCalls == 2 \* SpecAccess: cap on the operator's handler calls
MaxApproveCalls == 2 \* SpecReferral: cap on the approveUser calls
InitEndTime == 2    \* the end time the game starts with
MaxLedgerCalls == 1 \* SpecLedger: cap on the operator's handler calls
MaxLedgerLog == 4   \* SpecLedger: cap on the length of 'transactions'

\* ---------------------------------------------------------- constants --
MinStake == 10      \* rps-game.tsx:98
FeePercent == 5     \* rps-game.tsx:239  (totalPrize * 0.05)
ReferralBonus == 50 \* users-admin.tsx:254
InitPoints == 100   \* points every account starts with in this model
InitCash == 0       \* cash every account starts with in this model
DefaultMaxReferrals == 10 \* users-admin.tsx:160

Null == "none"
Players == {"u1", "u2"}
Pending == {"u3", "u4"}
Users == Players \cup Pending
Clients == Players \cup {"u5"}     \* the signed-in players, a third one for SpecJoin
Accounts == Users \cup Clients
Admins == {"a1"}
RoomIds == 1..MaxRooms
Choices == {"rock", "paper", "scissors"}
PlayChoices == {"rock", "paper"}   \* the choices the players of Spec and SpecRps click
Stakes == {15, 100}                 \* values typed into the stake prompt
StakesAll == {100}                  \* the stake typed in under Spec
Amounts == {-5, 50}                 \* values typed into the balance prompt
Currencies == {"points", "cash"}
Sessions == {"a1", "a2"}
Cards == {"c1", "c2"}
Teams == {"team1", "team2"}
Durations == {1}
LedgerChoices == {"rock"}
LedgerAccounts == {"u1", "u3"}
FundInputs == {-1, 20}
BetAmounts == {100}
Bettors == {"u1", "u2"}
InitOdds == [team1 |-> 3, team2 |-> 2]

VARIABLES
    users,          \* collection 'users': id -> document
    rpsRooms,       \* collection 'rpsRooms': id -> document (NoRoom: not created)
    rpsRounds,      \* collection 'rpsRounds', in creation order
    transactions,   \* collection 'transactions' (the ledger), in creation order
    rooms,          \* per client: ids in the 'rooms' state of RpsGame
    activeRoom,     \* per client: the 'activeRoom' state of RpsGame
    mc,             \* per client: position and locals of a makeChoice call
    adm,            \* per operator session: position and locals of a handler
    adminCalls,     \* history: operator handler calls started so far
    lastOp,         \* history: the handler whose write was applied by the last step
    settings,       \* document 'settings/referral'
    versusGames,    \* collection 'versusGames': the document of the one game
    bets,           \* the bets placed on the game, in creation order
    now,            \* the clock the timers read (new Date())
    cards,          \* per mounted GameCard: its 'game' prop and its timer
    typed           \* per client: the text it enters into createRoom's prompt

vars == <<users, rpsRooms, rpsRounds, transactions, rooms, activeRoom, mc, adm, adminCalls, lastOp,
          settings, versusGames, bets, now, cards, typed>>

\* What the handlers of RpsGame and the balance and approval handlers of
\* UsersAdmin never write.
extVars == <<settings, versusGames, bets, now, cards, typed>>

\* ------------------------------------------------------------ helpers --
Username(u) == u

NoRoom ==
    [hostId |-> Null, guestId |-> Null, stake |-> 0, status |-> "absent",
     hostChoice |-> Null, guestChoice |-> Null, roundWinner |-> Null,
     hostPaid |-> FALSE, guestPaid |-> FALSE,
     endedByHost |-> FALSE, guestQuit |-> FALSE]

Entry(u, amt, t) == [userId |-> u, amount |-> amt, type |-> t]

\* What a step records of itself: the handler, the acting user (the account, for
\* the operator's handlers), the room and the error it reported ("" when none).
Op(name, u, r, err) == [op |-> name, user |-> u, room |-> r, error |-> err]
NoOp == Op("other", Null, 0, "")

RECURSIVE SumAmounts(_)
SumAmounts(s) == IF s = <<>> THEN 0 ELSE Head(s).amount + SumAmounts(Tail(s))

\* Mutant of HouseFee: Math.round in place of Math.floor.
HouseFeeRounded(totalPrize) == (totalPrize * FeePercent + 50) \div 100

\* Math.floor(totalPrize * 0.05): for every pool below 2^31 the double product
\* floors to the integer quotient by 20.
HouseFee(totalPrize) == (totalPrize * FeePercent) \div 100

\* Mutant of determineWinner: the first pair of the beats-relation reversed.
determineWinnerSwapped(hostChoice, guestChoice) ==
    IF hostChoice = guestChoice THEN "draw"
    ELSE IF \/ (hostChoice = "rock" /\ guestChoice = "paper")
            \/ (hostChoice = "paper" /\ guestChoice = "rock")
            \/ (hostChoice = "scissors" /\ guestChoice = "paper")
         THEN "host"
         ELSE "guest"

determineWinner(hostChoice, guestChoice) ==
    IF hostChoice = guestChoice THEN "draw"
    ELSE IF \/ (hostChoice = "rock" /\ guestChoice = "scissors")
            \/ (hostChoice = "paper" /\ guestChoice = "rock")
            \/ (hostChoice = "scissors" /\ guestChoice = "paper")
         THEN "host"
         ELSE "guest"

\* The ids createRoom has handed out are 1..n; the next one is n+1.
Created == {r \in RoomIds : rpsRooms[r].status # "absent"}
NextRoomId == Cardinality(Created) + 1

\* The query of the listener: rooms whose status is 'waiting' or 'playing'.
ActiveRooms == {r \in RoomIds : rpsRooms[r].status \in {"waiting", "playing"}}

Max(S) == CHOOSE x \in S : \A y \in S : y <= x

\* activeRoom = null, as a record of the fields the handlers read.
NoActiveRoom == [id |-> 0, hostId |-> Null, guestId |-> Null, stake |-> 0]

\* The list is sorted newest first and find() takes the first room the user is in.
UserRoom(u) ==
    LET mine == {r \in ActiveRooms : rpsRooms[r].hostId = u \/ rpsRooms[r].guestId = u}
    IN  IF mine = {} THEN NoActiveRoom
        ELSE LET r == Max(mine)
             IN  [id |-> r, hostId |-> rpsRooms[r].hostId,
                  guestId |-> rpsRooms[r].guestId, stake |-> rpsRooms[r].stake]

IdleMc == [pc |-> "idle", roomId |-> 0, stake |-> 0, isHost |-> FALSE,
           hostChoice |-> Null, guestChoice |-> Null, guestId |-> Null]

IdleAdm == [pc |-> "idle", userId |-> Null, type |-> Null, amount |-> 0, difference |-> 0,
            referrerId |-> Null, referrerPoints |-> 0, referrals |-> <<>>]

\* The auth store's copy of the caller's points: the current document or the
\* one loaded at sign-in.
AuthPoints(u) == {users[u].points, InitPoints}

\* The referral settings every UsersAdmin starts from.
DefaultSettings ==
    [referralBonus |-> ReferralBonus, maxReferrals |-> DefaultMaxReferrals, enabled |-> TRUE]

\* A versus game as it is listed: open, betting enabled, its end time ahead.
\* endedAt = -1: not set.
\* The optional boolean field bettingEnabled of a game document: "unset"
\* when the document has no such field, else "true" or "false".
\* JavaScript's !b for such a field: !undefined and !false are true.
Not(b) == IF b = "true" THEN "false" ELSE "true"

\* JavaScript's b !== false, the test of checkTime and of the card's display.
NotFalse(b) == b # "false"

NewGame ==
    [status |-> "open", winner |-> Null, bettingEnabled |-> "true",
     endTime |-> InitEndTime, endedAt |-> -1, odds |-> InitOdds, prizePool |-> 0]

\* The fields of the 'game' prop that GameCard's handlers and timer read.
Prop(g) == [bettingEnabled |-> g.bettingEnabled, endTime |-> g.endTime]

\* A card mounted before the end time: the effect has set its interval;
\* pending counts its lock writes sent and not yet applied.
MountedCard(g) == [game |-> Prop(g), interval |-> TRUE, pending |-> 0]

\* --------------------------------------------------------------- Init --
InitGame ==
    /\ settings = DefaultSettings
    /\ versusGames = NewGame
    /\ bets = <<>>
    /\ now = 0
    /\ cards = [c \in Cards |-> MountedCard(NewGame)]

InitExt ==
    /\ InitGame
    /\ typed = [u \in Clients |-> <<>>]

InitRps ==
    /\ users = [u \in Accounts |->
                  [points |-> InitPoints, cash |-> InitCash,
                   approved |-> (u \in Clients),
                   referralPending |-> (u \in Pending),
                   referrerId |-> IF u \in Pending THEN "u1" ELSE Null,
                   referrals |-> <<>>, disabled |-> FALSE, exists |-> TRUE]]
    /\ rpsRooms = [r \in RoomIds |-> NoRoom]
    /\ rpsRounds = <<>>
    /\ transactions = <<>>
    /\ rooms = [u \in Clients |-> {}]
    /\ activeRoom = [u \in Clients |-> NoActiveRoom]
    /\ mc = [u \in Clients |-> IdleMc]
    /\ adm = [a \in Sessions |-> IdleAdm]
    /\ adminCalls = 0
    /\ lastOp = NoOp

Init == InitExt /\ InitRps

\* ----------------------------------------------------- RpsGame client --
\* The onSnapshot callback: refreshes the room list and the active room.
OnSnapshot(u) ==
    /\ rooms[u] # ActiveRooms \/ activeRoom[u] # UserRoom(u)
    /\ rooms' = [rooms EXCEPT ![u] = ActiveRooms]
    /\ activeRoom' = [activeRoom EXCEPT ![u] = UserRoom(u)]
    /\ UNCHANGED <<users, rpsRooms, rpsRounds, transactions, mc, adm, adminCalls>>
    /\ lastOp' = NoOp
    /\ UNCHANGED extVars

\* Mutant of HasFunds: the transaction does not check the balance it read.
HasFundsUnchecked(userData, stake) == TRUE

\* The check inside the transactions of createRoom and joinRoom.
HasFunds(userData, stake) == ~(userData.points < stake)

\* What the transaction of createRoom or joinRoom throws for the account
\* document it read and the stake; "" when it goes on to write.
DebitError(userData, stake) ==
    IF ~userData.exists THEN "User not found"
    ELSE IF ~HasFunds(userData, stake) THEN "Insufficient points"
    ELSE ""

\* Mutant of Debit: the transaction writes the room but takes no stake.
DebitNothing(us, u, stake) == us

\* transaction.update(userRef, {points: increment(-stake)}).
Debit(us, u, stake) == [us EXCEPT ![u].points = @ - stake]

\* Mutant of BelowMinimum: any positive stake is accepted.
BelowOne(stakeAmount) == stakeAmount < 1

\* createRoom's test stakeAmount < 10.
BelowMinimum(stakeAmount) == stakeAmount < MinStake

createRoom(u, stakeAmount) ==
    /\ NextRoomId \in RoomIds
    /\ \E localPoints \in AuthPoints(u) :
         IF BelowMinimum(stakeAmount) THEN
            /\ lastOp' = Op("createRoom", u, 0, "Minimum stake is 10 FBT")
            /\ UNCHANGED <<users, rpsRooms, rpsRounds, transactions, rooms, activeRoom, mc, adm, adminCalls>>
         ELSE IF stakeAmount > localPoints THEN
            /\ lastOp' = Op("createRoom", u, 0, "Insufficient points")
            /\ UNCHANGED <<users, rpsRooms, rpsRounds, transactions, rooms, activeRoom, mc, adm, adminCalls>>
         ELSE IF DebitError(users[u], stakeAmount) # "" THEN
            /\ lastOp' = Op("createRoom", u, 0, DebitError(users[u], stakeAmount))
            /\ UNCHANGED <<users, rpsRooms, rpsRounds, transactions, rooms, activeRoom, mc, adm, adminCalls>>
         ELSE
            /\ rpsRooms' = [rpsRooms EXCEPT ![NextRoomId] =
                              [NoRoom EXCEPT !.hostId = u, !.stake = stakeAmount,
                                             !.status = "waiting", !.hostPaid = TRUE]]
            /\ users' = Debit(users, u, stakeAmount)
            /\ transactions' = Append(transactions, Entry(u, -stakeAmount, "rps_stake"))
            /\ lastOp' = Op("createRoom", u, NextRoomId, "")
            /\ UNCHANGED <<rpsRounds, rooms, activeRoom, mc, adm, adminCalls>>
    /\ UNCHANGED extVars

\* ------------------------------------------------- the stake prompt --
\* The characters of the texts entered; none is an 'x', so parseInt's
\* hexadecimal prefix does not arise.
IsDigit(c) == c \in {"0", "1", "2", "3", "4", "5", "6", "7", "8", "9"}

DigitValue(c) ==
    CASE c = "0" -> 0 [] c = "1" -> 1 [] c = "2" -> 2 [] c = "3" -> 3 [] c = "4" -> 4
      [] c = "5" -> 5 [] c = "6" -> 6 [] c = "7" -> 7 [] c = "8" -> 8 [] c = "9" -> 9

\* The text without its leading blanks.
RECURSIVE TrimStart(_)
TrimStart(s) == IF s # <<>> /\ Head(s) = " " THEN TrimStart(Tail(s)) ELSE s

\* The longest prefix of s that consists of digits.
RECURSIVE DigitRun(_)
DigitRun(s) ==
    IF s = <<>> \/ ~IsDigit(Head(s)) THEN <<>> ELSE <<Head(s)>> \o DigitRun(Tail(s))

\* The number a sequence of digits denotes.
RECURSIVE Decimal(_)
Decimal(d) ==
    IF d = <<>> THEN 0
    ELSE 10 * Decimal(SubSeq(d, 1, Len(d) - 1)) + DigitValue(d[Len(d)])

\* JavaScript's parseInt(text): leading blanks are skipped, a sign is read,
\* then the digits up to the first character that is not one; what follows
\* is ignored. The result is NaN when there is no digit to read.
parseInt(text) ==
    LET t == TrimStart(text)
        signed == t # <<>> /\ Head(t) \in {"-", "+"}
        run == DigitRun(IF signed THEN Tail(t) ELSE t)
    IN  [nan |-> run = <<>>,
         value |-> IF signed /\ Head(t) = "-" THEN 0 - Decimal(run) ELSE Decimal(run)]

\* createRoom from its prompt: an empty text returns silently, a text
\* parseInt makes nothing of is refused like a stake below the minimum, any
\* other goes on with the number read.
createRoomPrompt(u) ==
    LET stake == typed[u]
    IN  IF stake = <<>> THEN
            /\ lastOp' = Op("createRoom", u, 0, "")
            /\ UNCHANGED <<users, rpsRooms, rpsRounds, transactions, rooms, activeRoom, mc, adm, adminCalls>>
            /\ UNCHANGED extVars
        ELSE IF parseInt(stake).nan THEN
            /\ lastOp' = Op("createRoom", u, 0, "Minimum stake is 10 FBT")
            /\ UNCHANGED <<users, rpsRooms, rpsRounds, transactions, rooms, activeRoom, mc, adm, adminCalls>>
            /\ UNCHANGED extVars
        ELSE createRoom(u, parseInt(stake).value)

\* Mutant of MayJoin: the host may join its own room.
MayJoinAny(u, hostId) == TRUE

\* joinRoom's guard: it returns at once when the caller is the room's host.
MayJoin(u, hostId) == hostId # u

joinRoom(u, r) ==
    /\ r \in rooms[u]
    /\ MayJoin(u, rpsRooms[r].hostId)
    /\ IF DebitError(users[u], rpsRooms[r].stake) # "" THEN
            /\ lastOp' = Op("joinRoom", u, r, DebitError(users[u], rpsRooms[r].stake))
            /\ UNCHANGED <<users, rpsRooms, rpsRounds, transactions, rooms, activeRoom, mc, adm, adminCalls>>
       ELSE
            /\ rpsRooms' = [rpsRooms EXCEPT ![r].guestId = u, ![r].status = "playing",
                                            ![r].guestPaid = TRUE]
            /\ users' = Debit(users, u, rpsRooms[r].stake)
            /\ transactions' = Append(transactions, Entry(u, -rpsRooms[r].stake, "rps_stake"))
            /\ lastOp' = Op("joinRoom", u, r, "")
            /\ UNCHANGED <<rpsRounds, rooms, activeRoom, mc, adm, adminCalls>>
    /\ UNCHANGED extVars

\* makeChoice, first await: updateDoc writes the caller's choice field.
MakeChoiceWrite(u, selectedChoice) ==
    /\ activeRoom[u] # NoActiveRoom
    /\ mc[u].pc = "idle"
    /\ LET r == activeRoom[u].id
           isHost == activeRoom[u].hostId = u
       IN  /\ rpsRooms' = IF isHost
                          THEN [rpsRooms EXCEPT ![r].hostChoice = selectedChoice]
                          ELSE [rpsRooms EXCEPT ![r].guestChoice = selectedChoice]
           /\ mc' = [mc EXCEPT ![u] = [IdleMc EXCEPT !.pc = "written", !.roomId = r,
                                                     !.stake = activeRoom[u].stake,
                                                     !.isHost = isHost]]
    /\ UNCHANGED <<users, rpsRounds, transactions, rooms, activeRoom, adm, adminCalls>>
    /\ lastOp' = NoOp
    /\ UNCHANGED extVars

\* makeChoice, second await: getDoc reads the room back; the call goes on to
\* settle only when it sees both choices.
MakeChoiceRead(u) ==
    /\ mc[u].pc = "written"
    /\ LET updatedRoom == rpsRooms[mc[u].roomId]
       IN  IF updatedRoom.hostChoice # Null /\ updatedRoom.guestChoice # Null
           THEN /\ mc' = [mc EXCEPT ![u].pc = "read",
                                    ![u].hostChoice = updatedRoom.hostChoice,
                                    ![u].guestChoice = updatedRoom.guestChoice,
                                    ![u].guestId = updatedRoom.guestId]
           ELSE /\ mc' = [mc EXCEPT ![u] = IdleMc]
    /\ UNCHANGED <<users, rpsRooms, rpsRounds, transactions, rooms, activeRoom, adm, adminCalls>>
    /\ lastOp' = NoOp
    /\ UNCHANGED extVars

\* The deltas of a decisive round: the winner's prize and the house fee.
WinEntries(winnerId, totalPrize) ==
    <<Entry(winnerId, totalPrize - HouseFee(totalPrize), "rps_win"),
      Entry(Null, HouseFee(totalPrize), "admin_profit")>>

\* Mutant of DrawEntries: the house fee is taken on a draw too.
DrawEntriesWithFee(hostId, guestId, stake) ==
    <<Entry(hostId, stake - HouseFee(stake), "rps_draw"),
      Entry(guestId, stake - HouseFee(stake), "rps_draw"),
      Entry(Null, 2 * HouseFee(stake), "admin_profit")>>

\* The deltas of a drawn round: each stake goes back.
DrawEntries(hostId, guestId, stake) ==
    <<Entry(hostId, stake, "rps_draw"), Entry(guestId, stake, "rps_draw")>>

\* increment(amount) on the points of every entry's account.
Credit(us, entries) ==
    [u \in DOMAIN us |->
        [us[u] EXCEPT !.points = @ + SumAmounts(SelectSeq(entries, LAMBDA e : e.userId = u))]]

\* A batch commits only when every account document it updates exists.
AllExist(entries) ==
    \A i \in 1..Len(entries) :
        entries[i].userId = Null \/ users[entries[i].userId].exists

\* makeChoice, third await: batch.commit applies the round record, the reset
\* of the choices and the payouts computed from what the call read.
MakeChoiceCommit(u) ==
    /\ mc[u].pc = "read"
    /\ LET r == mc[u].roomId
           hostId == rpsRooms[r].hostId
           guestId == mc[u].guestId
           stake == rpsRooms[r].stake
           result == determineWinner(mc[u].hostChoice, mc[u].guestChoice)
           totalPrize == mc[u].stake * 2
           winnerId == IF result = "host" THEN hostId
                       ELSE IF result = "guest" THEN guestId ELSE Null
           winner == IF winnerId # Null THEN Username(winnerId) ELSE "Draw"
           entries == IF winnerId # Null THEN WinEntries(winnerId, totalPrize)
                      ELSE DrawEntries(hostId, guestId, stake)
       IN  IF AllExist(entries)
           THEN /\ rpsRounds' = Append(rpsRounds,
                      [roomId |-> r, hostId |-> hostId, guestId |-> guestId,
                       hostChoice |-> mc[u].hostChoice, guestChoice |-> mc[u].guestChoice,
                       winner |-> winner, stake |-> stake])
                /\ rpsRooms' = [rpsRooms EXCEPT ![r].hostChoice = Null, ![r].guestChoice = Null,
                                                ![r].roundWinner = winner]
                /\ users' = Credit(users, entries)
                /\ transactions' = transactions \o entries
                /\ lastOp' = Op("makeChoice", u, r, "")
           ELSE /\ UNCHANGED <<rpsRounds, rpsRooms, users, transactions>>
                /\ lastOp' = Op("makeChoice", u, r, "Failed to make choice")
    /\ mc' = [mc EXCEPT ![u] = IdleMc]
    /\ UNCHANGED <<rooms, activeRoom, adm, adminCalls>>
    /\ UNCHANGED extVars

\* The refunds of endGame: the host's stake, and the guest's when the snapshot has one.
EndRefunds(room) ==
    <<Entry(room.hostId, room.stake, "rps_refund")>> \o
    (IF room.guestId # Null THEN <<Entry(room.guestId, room.stake, "rps_refund")>> ELSE <<>>)

endGame(u) ==
    /\ activeRoom[u] # NoActiveRoom
    /\ activeRoom[u].hostId = u
    /\ LET r == activeRoom[u].id
           entries == EndRefunds(activeRoom[u])
       IN  IF AllExist(entries)
           THEN /\ users' = Credit(users, entries)
                /\ transactions' = transactions \o entries
                /\ rpsRooms' = [rpsRooms EXCEPT ![r].status = "completed",
                                                ![r].endedByHost = TRUE]
                /\ lastOp' = Op("endGame", u, r, "")
           ELSE /\ UNCHANGED <<users, transactions, rpsRooms>>
                /\ lastOp' = Op("endGame", u, r, "Failed to end game")
    /\ UNCHANGED <<rpsRounds, rooms, activeRoom, mc, adm, adminCalls>>
    /\ UNCHANGED extVars

\* Mutant of QuitRefunds: the guest's stake is returned as well.
QuitRefundsBoth(room) ==
    <<Entry(room.hostId, room.stake, "rps_refund"),
      Entry(room.guestId, room.stake, "rps_refund")>>

\* The refunds of quitGame: the host's stake only; the guest's is forfeited.
QuitRefunds(room) == <<Entry(room.hostId, room.stake, "rps_refund")>>

quitGame(u) ==
    /\ activeRoom[u] # NoActiveRoom
    /\ u # activeRoom[u].hostId
    /\ LET r == activeRoom[u].id
           entries == QuitRefunds(activeRoom[u])
       IN  IF AllExist(entries)
           THEN /\ users' = Credit(users, entries)
                /\ transactions' = transactions \o entries
                /\ rpsRooms' = [rpsRooms EXCEPT ![r].status = "completed",
                                                ![r].guestQuit = TRUE]
                /\ lastOp' = Op("quitGame", u, r, "")
           ELSE /\ UNCHANGED <<users, transactions, rpsRooms>>
                /\ lastOp' = Op("quitGame", u, r, "Failed to quit game")
    /\ UNCHANGED <<rpsRounds, rooms, activeRoom, mc, adm, adminCalls>>
    /\ UNCHANGED extVars

\* --------------------------------------------------- UsersAdmin client --
\* updateUserBalance, first await: getDoc reads the balance and the handler
\* computes the difference to the amount typed in.
UpdateBalanceRead(a, userId, type, amount) ==
    /\ adm[a].pc = "idle"
    /\ adminCalls' = adminCalls + 1
    /\ IF users[userId].exists
       THEN /\ adm' = [adm EXCEPT ![a] = [IdleAdm EXCEPT !.pc = "ub_read", !.userId = userId,
                                                         !.type = type, !.amount = amount,
                                                         !.difference = amount - users[userId][type]]]
            /\ lastOp' = NoOp
       ELSE /\ UNCHANGED adm
            /\ lastOp' = Op("updateUserBalance", userId, 0, "Failed to update user")
    /\ UNCHANGED <<users, rpsRooms, rpsRounds, transactions, rooms, activeRoom, mc>>
    /\ UNCHANGED extVars

\* updateUserBalance, second await: updateDoc increments the balance; it
\* rejects when the document is gone.
UpdateBalanceWrite(a) ==
    /\ adm[a].pc = "ub_read"
    /\ IF users[adm[a].userId].exists
       THEN /\ users' = [users EXCEPT ![adm[a].userId][adm[a].type] = @ + adm[a].difference]
            /\ adm' = [adm EXCEPT ![a].pc = "ub_written"]
            /\ lastOp' = NoOp
       ELSE /\ UNCHANGED users
            /\ adm' = [adm EXCEPT ![a] = IdleAdm]
            /\ lastOp' = Op("updateUserBalance", adm[a].userId, 0, "Failed to update user")
    /\ UNCHANGED <<rpsRooms, rpsRounds, transactions, rooms, activeRoom, mc, adminCalls>>
    /\ UNCHANGED extVars

\* updateUserBalance, third await: addDoc appends the ledger entry, or rejects
\* and the handler reports the failure; the increment stays applied.
UpdateBalanceLog(a) ==
    /\ adm[a].pc = "ub_written"
    /\ \/ /\ transactions' = Append(transactions,
                 Entry(adm[a].userId, adm[a].difference, "admin_" \o adm[a].type \o "_update"))
          /\ lastOp' = Op("updateUserBalance", adm[a].userId, 0, "")
       \/ /\ UNCHANGED transactions
          /\ lastOp' = Op("updateUserBalance", adm[a].userId, 0, "Failed to update user")
    /\ adm' = [adm EXCEPT ![a] = IdleAdm]
    /\ UNCHANGED <<users, rpsRooms, rpsRounds, rooms, activeRoom, mc, adminCalls>>
    /\ UNCHANGED extVars

\* toggleDisableUser: one updateDoc that writes the negation of the flag the
\* users list showed; it rejects when the document is gone.
toggleDisableUser(a, userId, currentDisabledState) ==
    /\ adminCalls' = adminCalls + 1
    /\ IF users[userId].exists
       THEN /\ users' = [users EXCEPT ![userId].disabled = ~currentDisabledState]
            /\ lastOp' = Op("toggleDisableUser", userId, 0, "")
       ELSE /\ UNCHANGED users
            /\ lastOp' = Op("toggleDisableUser", userId, 0,
                            IF currentDisabledState THEN "Failed to enable user"
                            ELSE "Failed to disable user")
    /\ UNCHANGED <<rpsRooms, rpsRounds, transactions, rooms, activeRoom, mc, adm>>
    /\ UNCHANGED extVars

\* deleteUser, first await: deleteDoc removes the account document.
DeleteUserDoc(a, userId) ==
    /\ adm[a].pc = "idle"
    /\ adminCalls' = adminCalls + 1
    /\ users' = [users EXCEPT ![userId].exists = FALSE]
    /\ adm' = [adm EXCEPT ![a] = [IdleAdm EXCEPT !.pc = "du_deleted", !.userId = userId]]
    /\ lastOp' = Op("deleteUser", userId, 0, "")
    /\ UNCHANGED <<rpsRooms, rpsRounds, transactions, rooms, activeRoom, mc>>
    /\ UNCHANGED extVars

\* deleteUser, second await: addDoc appends the 'user_deleted' entry, which
\* carries no amount.
\* The ledger after a deletion with the account's own entries removed.
LogDeletionPurging(ledger, userId) ==
    Append(SelectSeq(ledger, LAMBDA e : e.userId # userId),
           Entry(userId, 0, "user_deleted"))

\* deleteUser's addDoc: one more ledger entry, nothing else touched.
LogDeletion(ledger, userId) ==
    Append(ledger, Entry(userId, 0, "user_deleted"))

DeleteUserLog(a) ==
    /\ adm[a].pc = "du_deleted"
    /\ transactions' = LogDeletion(transactions, adm[a].userId)
    /\ adm' = [adm EXCEPT ![a] = IdleAdm]
    /\ lastOp' = NoOp
    /\ UNCHANGED <<users, rpsRooms, rpsRounds, rooms, activeRoom, mc, adminCalls>>
    /\ UNCHANGED extVars

\* updateReferralSettings: setDoc replaces the settings document.
updateReferralSettings(a, newSettings) ==
    /\ settings' = newSettings
    /\ lastOp' = Op("updateReferralSettings", Null, 0, "")
    /\ UNCHANGED <<users, rpsRooms, rpsRounds, transactions, rooms, activeRoom, mc, adm, adminCalls>>
    /\ UNCHANGED <<versusGames, bets, now, cards, typed>>

\* approveUser, first await: getDoc reads the account to approve.
ApproveReadUser(a, userId) ==
    /\ adm[a].pc = "idle"
    /\ adminCalls' = adminCalls + 1
    /\ IF users[userId].exists
       THEN /\ adm' = [adm EXCEPT ![a] =
                   [IdleAdm EXCEPT !.userId = userId,
                                   !.pc = IF users[userId].referralPending
                                             /\ users[userId].referrerId # Null
                                          THEN "au_user" ELSE "au_ready",
                                   !.referrerId = IF users[userId].referralPending
                                                  THEN users[userId].referrerId ELSE Null]]
            /\ lastOp' = NoOp
       ELSE /\ UNCHANGED adm
            /\ lastOp' = Op("approveUser", userId, 0, "Failed to approve user")
    /\ UNCHANGED <<users, rpsRooms, rpsRounds, transactions, rooms, activeRoom, mc>>
    /\ UNCHANGED extVars

\* approveUser, second await: getDoc reads the referrer; without a referrer
\* document the batch only approves.
ApproveReadReferrer(a) ==
    /\ adm[a].pc = "au_user"
    /\ adm' = IF users[adm[a].referrerId].exists
              THEN [adm EXCEPT ![a].pc = "au_ready",
                               ![a].referrerPoints = users[adm[a].referrerId].points,
                               ![a].referrals = users[adm[a].referrerId].referrals]
              ELSE [adm EXCEPT ![a].pc = "au_ready", ![a].referrerId = Null]
    /\ UNCHANGED <<users, rpsRooms, rpsRounds, transactions, rooms, activeRoom, mc, adminCalls>>
    /\ lastOp' = NoOp
    /\ UNCHANGED extVars

\* The referrer's document as the batch writes it: the points read earlier
\* plus the bonus, as an absolute value, and the referral appended.
ReferrerUpdate(doc, readPoints, readReferrals, username) ==
    [doc EXCEPT !.points = readPoints + ReferralBonus,
                !.referrals = Append(readReferrals, username)]

\* approveUser, third await: batch.commit.
ApproveCommit(a) ==
    /\ adm[a].pc = "au_ready"
    /\ LET userId == adm[a].userId
           ref == adm[a].referrerId
           updated == IF ref = Null THEN {userId} ELSE {userId, ref}
       IN  IF \E x \in updated : ~users[x].exists
           THEN /\ UNCHANGED <<users, transactions>>
                /\ lastOp' = Op("approveUser", userId, 0, "Failed to approve user")
           ELSE /\ IF ref = Null
                   THEN /\ users' = [users EXCEPT ![userId].approved = TRUE]
                        /\ UNCHANGED transactions
                   ELSE /\ users' = [users EXCEPT
                               ![userId].approved = TRUE,
                               ![userId].referralPending = FALSE,
                               ![ref] = ReferrerUpdate(@, adm[a].referrerPoints,
                                                       adm[a].referrals, Username(userId))]
                        /\ transactions' = Append(transactions,
                                                  Entry(ref, ReferralBonus, "referral_bonus"))
                /\ lastOp' = Op("approveUser", userId, 0, "")
    /\ adm' = [adm EXCEPT ![a] = IdleAdm]
    /\ UNCHANGED <<rpsRooms, rpsRounds, rooms, activeRoom, mc, adminCalls>>
    /\ UNCHANGED extVars

\* ---------------------------------------------------- GameCard client --
\* What neither GameCard nor the bet placement writes.
rpsVars == <<rpsRooms, rpsRounds, rooms, activeRoom, mc, adm, adminCalls, settings, typed>>

\* checkTime's test diff <= 0 for the end time of prop g.
TimeUp(g) == ~(g.endTime - now > 0)

\* Mutant of LockUpdate: the lock closes the game as well.
LockUpdateClosing(g) == [g EXCEPT !.bettingEnabled = "false", !.status = "completed"]

\* The write of checkTime: updateDoc(game, {bettingEnabled: false}).
LockUpdate(g) == [g EXCEPT !.bettingEnabled = "false"]

\* The card is rendered with the current game document. endTime or
\* bettingEnabled differ from the last render, so the effect runs again: the
\* old interval is cleared and checkTime is called once; it sends the lock
\* write when the time is up and the prop does not say betting is disabled,
\* and the interval is set only when the time is not up.
Render(c) ==
    /\ cards[c].game # Prop(versusGames)
    /\ LET g == Prop(versusGames)
       IN  cards' = [cards EXCEPT ![c] =
                       [game |-> g,
                        interval |-> ~TimeUp(g),
                        pending |-> IF TimeUp(g) /\ NotFalse(g.bettingEnabled)
                                    THEN @.pending + 1 ELSE @.pending]]
    /\ lastOp' = NoOp
    /\ UNCHANGED <<users, transactions, versusGames, bets, now>>
    /\ UNCHANGED rpsVars

\* A tick of the card's interval after the end time: checkTime, with the prop
\* of the render that set the interval, sends the lock write. The interval is
\* not cleared (setInterval ignores the value checkTime returns).
TimerTick(c) ==
    /\ cards[c].interval
    /\ TimeUp(cards[c].game)
    /\ NotFalse(cards[c].game.bettingEnabled)
    /\ cards' = [cards EXCEPT ![c].pending = @ + 1]
    /\ lastOp' = NoOp
    /\ UNCHANGED <<users, transactions, versusGames, bets, now>>
    /\ UNCHANGED rpsVars

\* A lock write of card c reaches the database.
LockApply(c) ==
    /\ cards[c].pending > 0
    /\ versusGames' = LockUpdate(versusGames)
    /\ cards' = [cards EXCEPT ![c].pending = @ - 1]
    /\ lastOp' = Op("checkTime", c, 0, "")
    /\ UNCHANGED <<users, transactions, bets, now>>
    /\ UNCHANGED rpsVars

\* The clock advances.
Tick ==
    /\ now' = now + 1
    /\ lastOp' = NoOp
    /\ UNCHANGED <<users, transactions, versusGames, bets, cards>>
    /\ UNCHANGED rpsVars

\* toggleBetting: writes the negation of the flag in the card's prop.
toggleBetting(c) ==
    /\ versusGames' = [versusGames EXCEPT !.bettingEnabled = Not(cards[c].game.bettingEnabled)]
    /\ lastOp' = Op("toggleBetting", c, 0, "")
    /\ UNCHANGED <<users, transactions, bets, now, cards>>
    /\ UNCHANGED rpsVars

\* updateGameDuration: the end time becomes now + duration.
updateGameDuration(c, duration) ==
    /\ versusGames' = [versusGames EXCEPT !.endTime = now + duration]
    /\ lastOp' = Op("updateGameDuration", c, 0, "")
    /\ UNCHANGED <<users, transactions, bets, now, cards>>
    /\ UNCHANGED rpsVars

\* setInitialFunds: an amount that is negative is refused; otherwise one batch
\* adds it to the prize pool and appends an 'admin_versus_fund' entry that
\* names no account.
setInitialFunds(c, funds) ==
    /\ IF funds < 0
       THEN /\ UNCHANGED <<versusGames, transactions>>
            /\ lastOp' = Op("setInitialFunds", c, 0, "Please enter a valid amount")
       ELSE /\ versusGames' = [versusGames EXCEPT !.prizePool = @ + funds]
            /\ transactions' = Append(transactions, Entry(Null, funds, "admin_versus_fund"))
            /\ lastOp' = Op("setInitialFunds", c, 0, "")
    /\ UNCHANGED <<users, bets, now, cards>>
    /\ UNCHANGED rpsVars

\* endGame of GameCard: the batch holds one write, to the game document.
endVersusGame(c, winner) ==
    /\ versusGames' = [versusGames EXCEPT !.status = "completed", !.winner = winner,
                                          !.endedAt = now]
    /\ lastOp' = Op("endVersusGame", c, 0, "")
    /\ UNCHANGED <<users, transactions, bets, now, cards>>
    /\ UNCHANGED rpsVars

\* A bet is placed while betting is open: the stake is debited and the bet
\* recorded with the odds of its team.
placeBet(u, team, amount) ==
    /\ versusGames.status = "open"
    /\ NotFalse(versusGames.bettingEnabled)
    /\ users[u].points >= amount
    /\ users' = [users EXCEPT ![u].points = @ - amount]
    /\ bets' = Append(bets, [userId |-> u, team |-> team, amount |-> amount,
                             odds |-> versusGames.odds[team], status |-> "pending"])
    /\ transactions' = Append(transactions, Entry(u, -amount, "versus_bet"))
    /\ lastOp' = Op("placeBet", u, 0, "")
    /\ UNCHANGED <<versusGames, now, cards>>
    /\ UNCHANGED rpsVars

\* --------------------------------------------------------------- Next --
\* The bounds of a specification: room for n more ledger entries, for one
\* more round record, for one more operator call.
LedgerRoom(n, cap) == Len(transactions) + n <= cap
RoundRoom == Len(rpsRounds) < MaxRounds
AdminRoom == adminCalls < MaxAdminCalls

\* The players' handlers, with the ledger capped at cap, the choices clicked
\* taken from cs and the stakes typed in from ss.
RpsNext(cap, cs, ss) ==
    \/ \E u \in Players : OnSnapshot(u)
    \/ \E u \in Players, s \in ss : LedgerRoom(1, cap) /\ createRoom(u, s)
    \/ \E u \in Players, r \in RoomIds : LedgerRoom(1, cap) /\ joinRoom(u, r)
    \/ \E u \in Players, c \in cs : RoundRoom /\ MakeChoiceWrite(u, c)
    \/ \E u \in Players : MakeChoiceRead(u)
    \/ \E u \in Players : LedgerRoom(2, cap) /\ RoundRoom /\ MakeChoiceCommit(u)
    \/ \E u \in Players : LedgerRoom(2, cap) /\ endGame(u)
    \/ \E u \in Players : LedgerRoom(1, cap) /\ quitGame(u)

\* The operator's handlers.
AdminNext(cap) ==
    \/ \E a \in Admins, u \in Users, t \in Currencies, n \in Amounts :
          AdminRoom /\ LedgerRoom(1, cap) /\ UpdateBalanceRead(a, u, t, n)
    \/ \E a \in Admins : UpdateBalanceWrite(a)
    \/ \E a \in Admins : UpdateBalanceLog(a)
    \/ \E a \in Admins, u \in Users : AdminRoom /\ LedgerRoom(1, cap) /\ ApproveReadUser(a, u)
    \/ \E a \in Admins : ApproveReadReferrer(a)
    \/ \E a \in Admins : ApproveCommit(a)

\* Players and operator together.
Next == RpsNext(MaxLedgerAll, PlayChoices, StakesAll) \/ AdminNext(MaxLedgerAll)

Spec == Init /\ [][Next]_vars

\* The players alone, over longer games.
NextRps == RpsNext(MaxLedger, PlayChoices, Stakes)

SpecRps == Init /\ [][NextRps]_vars

\* Debits under operator interference: the players open and join rooms
\* while the operator adjusts balances, disables and deletes accounts. The
\* users list of the operator is taken as current.
AccessRoom == adminCalls < MaxAccessCalls

NextAccess ==
    \/ \E u \in Players : OnSnapshot(u)
    \/ \E u \in Players, s \in Stakes : LedgerRoom(1, MaxLedgerAll) /\ createRoom(u, s)
    \/ \E u \in Players, r \in RoomIds : LedgerRoom(1, MaxLedgerAll) /\ joinRoom(u, r)
    \/ \E a \in Admins, u \in Players, n \in Amounts :
          AccessRoom /\ LedgerRoom(1, MaxLedgerAll) /\ UpdateBalanceRead(a, u, "points", n)
    \/ \E a \in Admins : UpdateBalanceWrite(a)
    \/ \E a \in Admins : UpdateBalanceLog(a)
    \/ \E a \in Admins, u \in Players :
          AccessRoom /\ toggleDisableUser(a, u, users[u].disabled)
    \/ \E a \in Admins, u \in Players :
          AccessRoom /\ LedgerRoom(1, MaxLedgerAll) /\ DeleteUserDoc(a, u)
    \/ \E a \in Admins : DeleteUserLog(a)

SpecAccess == Init /\ [][NextAccess]_vars

\* The versus game: two mounted cards, their timers, the operator's
\* handlers, the clock and the bettors.
NextGame ==
    \/ \E c \in Cards : cards[c].pending < MaxPendingLocks /\ Render(c)
    \/ \E c \in Cards : cards[c].pending < MaxPendingLocks /\ TimerTick(c)
    \/ \E c \in Cards : LockApply(c)
    \/ now < MaxTime /\ Tick
    \/ \E c \in Cards : toggleBetting(c)
    \/ \E c \in Cards, d \in Durations : now < MaxTime /\ updateGameDuration(c, d)
    \/ \E c \in Cards, w \in Teams : endVersusGame(c, w)
    \/ \E u \in Bettors, t \in Teams, n \in BetAmounts : Len(bets) < MaxBets /\ placeBet(u, t, n)

SpecGame == Init /\ [][NextGame]_vars

\* The same with the scheduling the cards rely on: snapshots are delivered,
\* interval timers fire and writes that were sent are applied.
SpecGameFair ==
    /\ SpecGame
    /\ WF_vars(\E c \in Cards : cards[c].pending < MaxPendingLocks /\ Render(c))
    /\ WF_vars(\E c \in Cards : cards[c].pending < MaxPendingLocks /\ TimerTick(c))
    /\ WF_vars(\E c \in Cards : LockApply(c))

\* The betting switch alone, on a game document created with or without the
\* field bettingEnabled: the cards, their timers, the clock and toggleBetting.
InitToggle ==
    \E b \in {"unset", "true"} :
        /\ settings = DefaultSettings
        /\ versusGames = [NewGame EXCEPT !.bettingEnabled = b]
        /\ bets = <<>>
        /\ now = 0
        /\ cards = [c \in Cards |-> MountedCard(versusGames)]
        /\ typed = [u \in Clients |-> <<>>]
        /\ InitRps

NextToggle ==
    \/ \E c \in Cards : cards[c].pending < MaxPendingLocks /\ Render(c)
    \/ \E c \in Cards : cards[c].pending < MaxPendingLocks /\ TimerTick(c)
    \/ \E c \in Cards : LockApply(c)
    \/ now < MaxTime /\ Tick
    \/ \E c \in Cards : toggleBetting(c)

SpecToggle == InitToggle /\ [][NextToggle]_vars

\* Referrals: two operator sessions approve accounts, concurrently too, and
\* change the referral settings between approvals.
SettingsInputs ==
    {DefaultSettings, [DefaultSettings EXCEPT !.enabled = FALSE],
     [DefaultSettings EXCEPT !.maxReferrals = 1]}

ApproveRoom == adminCalls < MaxApproveCalls

\* The approvals and settings changes of the operator sessions ss.
ReferralNext(ss) ==
    \/ \E a \in ss, s \in SettingsInputs :
          (\A b \in Sessions : adm[b].pc = "idle") /\ updateReferralSettings(a, s)
    \/ \E a \in ss, u \in Users :
          ApproveRoom /\ LedgerRoom(1, MaxLedgerAll) /\ ApproveReadUser(a, u)
    \/ \E a \in ss : ApproveReadReferrer(a)
    \/ \E a \in ss : ApproveCommit(a)

NextReferral == ReferralNext(Sessions)

SpecReferral == Init /\ [][NextReferral]_vars

\* One operator session: the approvals run one after the other.
NextApprove == ReferralNext(Admins)

SpecApprove == Init /\ [][NextApprove]_vars

\* The whole ledger: every handler that writes 'transactions', the players'
\* and the operator's, with accounts deleted while rooms are open.
LedgerCallRoom == adminCalls < MaxLedgerCalls

NextLedger ==
    \/ \E u \in Players : OnSnapshot(u)
    \/ \E u \in Players, s \in StakesAll : LedgerRoom(1, MaxLedgerLog) /\ createRoom(u, s)
    \/ \E u \in Players, r \in RoomIds : LedgerRoom(1, MaxLedgerLog) /\ joinRoom(u, r)
    \/ \E u \in Players, c \in LedgerChoices : RoundRoom /\ MakeChoiceWrite(u, c)
    \/ \E u \in Players : MakeChoiceRead(u)
    \/ \E u \in Players : LedgerRoom(2, MaxLedgerLog) /\ RoundRoom /\ MakeChoiceCommit(u)
    \/ \E u \in Players : LedgerRoom(2, MaxLedgerLog) /\ endGame(u)
    \/ \E u \in Players : LedgerRoom(1, MaxLedgerLog) /\ quitGame(u)
    \/ \E a \in Admins, u \in LedgerAccounts :
          LedgerCallRoom /\ LedgerRoom(1, MaxLedgerLog) /\ UpdateBalanceRead(a, u, "points", 50)
    \/ \E a \in Admins : UpdateBalanceWrite(a)
    \/ \E a \in Admins : UpdateBalanceLog(a)
    \/ \E a \in Admins, u \in LedgerAccounts :
          LedgerCallRoom /\ LedgerRoom(1, MaxLedgerLog) /\ ApproveReadUser(a, u)
    \/ \E a \in Admins : ApproveReadReferrer(a)
    \/ \E a \in Admins : ApproveCommit(a)
    \/ \E a \in Admins, u \in LedgerAccounts :
          LedgerCallRoom /\ LedgerRoom(1, MaxLedgerLog) /\ DeleteUserDoc(a, u)
    \/ \E a \in Admins : DeleteUserLog(a)
    \/ \E c \in Cards, n \in FundInputs :
          LedgerRoom(1, MaxLedgerLog) /\ versusGames.prizePool = 0 /\ setInitialFunds(c, n)

SpecLedger == Init /\ [][NextLedger]_vars

\* Three players around one room: it is opened, joined, quit and ended.
NextJoin ==
    \/ \E u \in Clients : OnSnapshot(u)
    \/ \E u \in Clients, s \in StakesAll : LedgerRoom(1, MaxLedger) /\ createRoom(u, s)
    \/ \E u \in Clients, r \in RoomIds : LedgerRoom(1, MaxLedger) /\ joinRoom(u, r)
    \/ \E u \in Clients : LedgerRoom(2, MaxLedger) /\ endGame(u)
    \/ \E u \in Clients : LedgerRoom(1, MaxLedger) /\ quitGame(u)

SpecJoin == Init /\ [][NextJoin]_vars

\* The stake prompt: each player has a text it enters whenever it opens a
\* room; rooms are opened, joined, quit and ended.
StakeTexts ==
    {<<"1", "0", "0">>, <<"1", "0">>, <<"9">>, <<"-", "5">>, <<"F">>, <<>>,
     <<"1", "5", " ", "F">>}

InitStake ==
    /\ InitGame
    /\ InitRps
    /\ typed \in [Clients -> StakeTexts]
    /\ typed["u5"] = <<>>

NextStake ==
    \/ \E u \in Players : OnSnapshot(u)
    \/ \E u \in Players : LedgerRoom(1, MaxLedger) /\ createRoomPrompt(u)
    \/ \E u \in Players, r \in RoomIds : LedgerRoom(1, MaxLedger) /\ joinRoom(u, r)
    \/ \E u \in Players : LedgerRoom(2, MaxLedger) /\ endGame(u)
    \/ \E u \in Players : LedgerRoom(1, MaxLedger) /\ quitGame(u)

SpecStake == InitStake /\ [][NextStake]_vars

\* Settlement alone: a room in play in which both choices of the round are
\* written and the call of u has read them back (and, in a race, the other
\* player's call too), for every pair of choices and a range of stakes.
SettleStakes == (MinStake..MaxSettleStake) \cup {100}

PlayingRoom(s, h, g) ==
    [NoRoom EXCEPT !.hostId = "u1", !.guestId = "u2", !.stake = s, !.status = "playing",
                   !.hostChoice = h, !.guestChoice = g, !.hostPaid = TRUE, !.guestPaid = TRUE]

HasRead(s, h, g, isHost) ==
    [IdleMc EXCEPT !.pc = "read", !.roomId = 1, !.stake = s, !.isHost = isHost,
                   !.hostChoice = h, !.guestChoice = g, !.guestId = "u2"]

InitSettle ==
    \E s \in SettleStakes, h \in Choices, g \in Choices, u \in Players, race \in BOOLEAN :
        /\ users = [v \in Users |->
                      [points |-> IF v \in Players THEN InitPoints - s ELSE InitPoints,
                       cash |-> InitCash,
                       approved |-> (v \in Players),
                       referralPending |-> (v \in Pending),
                       referrerId |-> IF v \in Pending THEN "u1" ELSE Null,
                       referrals |-> <<>>, disabled |-> FALSE, exists |-> TRUE]]
        /\ rpsRooms = [r \in RoomIds |-> IF r = 1 THEN PlayingRoom(s, h, g) ELSE NoRoom]
        /\ rpsRounds = <<>>
        /\ transactions = <<Entry("u1", -s, "rps_stake"), Entry("u2", -s, "rps_stake")>>
        /\ rooms = [v \in Players |-> {1}]
        /\ activeRoom = [v \in Players |->
                           [id |-> 1, hostId |-> "u1", guestId |-> "u2", stake |-> s]]
        /\ mc = [v \in Players |->
                   IF v = u \/ race THEN HasRead(s, h, g, v = "u1") ELSE IdleMc]
        /\ adm = [a \in Sessions |-> IdleAdm]
        /\ adminCalls = 0
        /\ lastOp = NoOp
        /\ InitExt

NextSettle == \E u \in Players : RoundRoom /\ MakeChoiceCommit(u)

SpecSettle == InitSettle /\ [][NextSettle]_vars

\* ------------------------------------------------------------- claims --
\* Ledger replay: the sum of the amounts recorded for account u in the entries
\* whose type satisfies Keep.
Replay(u, Keep(_)) ==
    SumAmounts(SelectSeq(transactions, LAMBDA e : e.userId = u /\ Keep(e.type)))

IsPointsType(t) == t # "admin_cash_update"
IsCashType(t) == t = "admin_cash_update"

NoCallInFlight ==
    /\ \A u \in Players : mc[u].pc = "idle"
    /\ \A a \in Sessions : adm[a].pc = "idle"

RoundsOf(r) == {i \in 1..Len(rpsRounds) : rpsRounds[i].roomId = r}

\* The step applied the settlement batch of makeChoice.
SettleStep ==
    /\ lastOp'.op = "makeChoice" /\ lastOp'.error = ""
    /\ Len(rpsRounds') = Len(rpsRounds) + 1
SettledRound == rpsRounds'[Len(rpsRounds')]

\* C1: a settlement batch is applied only while the room still holds the two
\* choices the call read, so that each completed round is settled exactly once
\* and the call that lost the race applies nothing.
C1_ExactlyOneSettlement ==
    [][SettleStep =>
          /\ rpsRooms[lastOp'.room].hostChoice # Null
          /\ rpsRooms[lastOp'.room].guestChoice # Null
          /\ rpsRooms[lastOp'.room].hostChoice = SettledRound.hostChoice
          /\ rpsRooms[lastOp'.room].guestChoice = SettledRound.guestChoice]_vars

\* C2: in every reachable state every account's points and cash are >= 0.
C2_NoNegativeBalance ==
    \A u \in Users : users[u].points >= 0 /\ users[u].cash >= 0

\* C3: whenever no handler call is in flight, every account's points equal
\* its initial points plus the amounts of its ledger entries.
C3_LedgerReplay ==
    NoCallInFlight =>
        \A u \in Users : users[u].points = InitPoints + Replay(u, IsPointsType)

\* The entries the step appended, and their sum for account u.
NewEntries == SubSeq(transactions', Len(transactions) + 1, Len(transactions'))
NewSum(u, Keep(_)) ==
    SumAmounts(SelectSeq(NewEntries, LAMBDA e : e.userId = u /\ Keep(e.type)))

\* C4: a balance change and its ledger entry are one atomic unit: every step
\* changes each account's points and cash by exactly the amounts of the
\* entries the same step appends for it, so that no state lies between the
\* two and a failed append leaves the balance unchanged.
C4_AtomicAdjust ==
    [][\A u \in Users :
          /\ users'[u].points - users[u].points = NewSum(u, IsPointsType)
          /\ users'[u].cash - users[u].cash = NewSum(u, IsCashType)]_vars

\* C5: once a room is 'completed' its status stays 'completed', and no
\* joinRoom, choice write or settlement on it changes the room, a balance or
\* the ledger.
C5_CompletedIsTerminal ==
    [][\A r \in RoomIds :
          rpsRooms[r].status = "completed" =>
             /\ rpsRooms'[r].status = "completed"
             /\ lastOp' = NoOp => rpsRooms'[r] = rpsRooms[r]
             /\ lastOp'.op \in {"joinRoom", "makeChoice"} /\ lastOp'.room = r =>
                   /\ rpsRooms'[r] = rpsRooms[r]
                   /\ users' = users
                   /\ transactions' = transactions]_vars

\* The fixed beats-relation: <<a, b>> when a beats b.
Beats == {<<"rock", "scissors">>, <<"paper", "rock">>, <<"scissors", "paper">>}

\* floor(pool * 5%), stated without the model's HouseFee.
IsFloorFee(fee, pool) == fee * 100 <= pool * FeePercent /\ pool * FeePercent < (fee + 1) * 100

\* C6: a settlement of two different choices credits the winner exactly
\* pool - fee with pool = 2 * stake and fee = floor(pool * 5%), leaves every
\* other account as it was, and appends one rps_win entry for the winner and
\* one admin_profit entry of amount fee with no owning account (stake 100:
\* fee 10, winner 190).
C6_DecisivePayout ==
    [][SettleStep /\ SettledRound.hostChoice # SettledRound.guestChoice =>
          LET rec == SettledRound
              pool == 2 * rec.stake
              w == IF <<rec.hostChoice, rec.guestChoice>> \in Beats
                   THEN rec.hostId ELSE rec.guestId
              prize == users'[w].points - users[w].points
              fee == NewEntries[2].amount
          IN  /\ Len(NewEntries) = 2
              /\ NewEntries[1] = Entry(w, prize, "rps_win")
              /\ NewEntries[2] = Entry(Null, fee, "admin_profit")
              /\ IsFloorFee(fee, pool)
              /\ prize = pool - fee
              /\ \A v \in Users \ {w} : users'[v] = users[v]
              /\ rec.stake = 100 => fee = 10 /\ prize = 190]_vars

\* C6 witness: a decisive round of stake 15 was settled (pool 30, fee
\* floor(1.5) = 1): the winner holds 100 - 15 + 29, the loser 100 - 15.
C6_Witness ==
    /\ lastOp.op = "makeChoice"
    /\ Len(rpsRounds) = 1
    /\ rpsRounds[1].stake = 15 /\ rpsRounds[1].winner = "u2"
    /\ users["u2"].points = InitPoints - 15 + 29
    /\ users["u1"].points = InitPoints - 15

\* C7: determineWinner returns 'draw' iff the choices are equal, 'host' iff
\* the host's choice beats the guest's, 'guest' otherwise; swapping the
\* arguments swaps 'host' and 'guest'; and every recorded round names the
\* winner this relation gives.
C7_DetermineWinner ==
    /\ \A h \in Choices, g \in Choices :
          /\ determineWinner(h, g) = "draw" <=> h = g
          /\ determineWinner(h, g) = "host" <=> <<h, g>> \in Beats
          /\ determineWinner(h, g) = "guest" <=> <<g, h>> \in Beats
          /\ determineWinner(h, g) = "host" <=> determineWinner(g, h) = "guest"
          /\ determineWinner(h, g) = "draw" <=> determineWinner(g, h) = "draw"
    /\ \A i \in 1..Len(rpsRounds) :
          LET rec == rpsRounds[i]
          IN  rec.winner = IF rec.hostChoice = rec.guestChoice THEN "Draw"
                           ELSE IF <<rec.hostChoice, rec.guestChoice>> \in Beats
                                THEN Username(rec.hostId) ELSE Username(rec.guestId)

\* C7 witness: a round of rock against paper was settled for the guest.
C7_Witness ==
    \E i \in 1..Len(rpsRounds) :
        /\ rpsRounds[i].hostChoice = "rock" /\ rpsRounds[i].guestChoice = "paper"
        /\ rpsRounds[i].winner = Username(rpsRounds[i].guestId)

\* C8: a settlement of two equal choices credits host and guest exactly the
\* room's stake each, appends one rps_draw entry for each of them and no
\* admin_profit entry.
C8_DrawSettlement ==
    [][SettleStep /\ SettledRound.hostChoice = SettledRound.guestChoice =>
          LET rec == SettledRound
          IN  /\ NewEntries = <<Entry(rec.hostId, rec.stake, "rps_draw"),
                                Entry(rec.guestId, rec.stake, "rps_draw")>>
              /\ users'[rec.hostId].points = users[rec.hostId].points + rec.stake
              /\ users'[rec.guestId].points = users[rec.guestId].points + rec.stake
              /\ rec.stake = rpsRooms[rec.roomId].stake
              /\ \A v \in Users \ {rec.hostId, rec.guestId} : users'[v] = users[v]
              /\ rec.winner = "Draw"]_vars

\* C8 witness: a drawn round of stake 100 was settled and both players are
\* back at their initial points.
C8_Witness ==
    /\ lastOp.op = "makeChoice"
    /\ Len(rpsRounds) = 1
    /\ rpsRounds[1].hostChoice = rpsRounds[1].guestChoice
    /\ rpsRounds[1].stake = 100
    /\ users["u1"].points = InitPoints /\ users["u2"].points = InitPoints

\* The step applied the batch of quitGame / of endGame.
QuitStep == lastOp'.op = "quitGame" /\ lastOp'.error = ""
EndStep == lastOp'.op = "endGame" /\ lastOp'.error = ""

\* C9 as claimed: when the guest quits a room in which no round has been
\* settled, the host is credited the stake, the guest is credited the stake,
\* and the room moves to 'completed'.
C9_QuitReturnsBothStakes ==
    [][QuitStep /\ RoundsOf(lastOp'.room) = {} =>
          LET r == lastOp'.room
              host == rpsRooms[r].hostId
              guest == lastOp'.user
          IN  /\ users'[host].points = users[host].points + rpsRooms[r].stake
              /\ users'[guest].points = users[guest].points + rpsRooms[r].stake
              /\ rpsRooms'[r].status = "completed"]_vars

\* C9 as amended: when the guest quits a room in which no round has been
\* settled, the host is credited the stake with one rps_refund entry, the
\* guest is credited nothing (the guest's stake is forfeited), and the room
\* moves to 'completed'.
C9_QuitReturnsHostStake ==
    [][QuitStep /\ RoundsOf(lastOp'.room) = {} =>
          LET r == lastOp'.room
              host == rpsRooms[r].hostId
              guest == lastOp'.user
          IN  /\ guest # host
              /\ users'[host].points = users[host].points + rpsRooms[r].stake
              /\ users'[guest] = users[guest]
              /\ NewEntries = <<Entry(host, rpsRooms[r].stake, "rps_refund")>>
              /\ rpsRooms'[r].status = "completed"
              /\ rpsRooms'[r].guestQuit]_vars

\* C9 witness: the guest u2 has quit a room of stake 100 with no settled
\* round: the host is back at its initial points, the guest is not.
C9_Witness ==
    /\ lastOp = Op("quitGame", "u2", 1, "")
    /\ rpsRounds = <<>>
    /\ rpsRooms[1].status = "completed" /\ rpsRooms[1].stake = 100
    /\ users["u1"].points = InitPoints
    /\ users["u2"].points = InitPoints - 100

\* C10: endGame credits nothing when the stakes of the room were already paid
\* out by a settled round, credits each party of the room exactly its stake
\* when they were not, and moves the room to 'completed' in both cases.
C10_EndReturnsOnlyReservedStakes ==
    [][EndStep =>
          LET r == lastOp'.room
              host == rpsRooms[r].hostId
              guest == rpsRooms[r].guestId
              parties == {host, guest} \ {Null}
          IN  /\ rpsRooms'[r].status = "completed"
              /\ RoundsOf(r) # {} => \A u \in Users : users'[u].points = users[u].points
              /\ RoundsOf(r) = {} /\ rpsRooms[r].status # "completed" =>
                    \A u \in parties : users'[u].points = users[u].points + rpsRooms[r].stake]_vars

\* The step is a createRoom or joinRoom call that got past the prompt.
DebitStep == lastOp'.op \in {"createRoom", "joinRoom"}
DebitUnchanged ==
    /\ users' = users /\ rpsRooms' = rpsRooms
    /\ transactions' = transactions /\ rpsRounds' = rpsRounds

\* C11: a createRoom or joinRoom call that fails changes no room, no
\* balance and no ledger entry, and a call by an account that does not exist
\* or whose balance is below the stake at the time of the transaction fails,
\* whatever the caller's local copy of the balance said.
C11_FailedDebitHasNoEffect ==
    [][DebitStep =>
          LET u == lastOp'.user
              r == lastOp'.room
          IN  /\ lastOp'.error # "" => DebitUnchanged
              /\ lastOp'.error = "" =>
                    /\ users[u].exists
                    /\ users[u].points >= rpsRooms'[r].stake
                    /\ users'[u].points = users[u].points - rpsRooms'[r].stake
              /\ lastOp'.op = "joinRoom"
                   /\ (~users[u].exists \/ users[u].points < rpsRooms[r].stake)
                   => lastOp'.error # ""]_vars

\* C11 witness: u1, whose balance the operator has lowered to 50, was
\* refused a room; nothing but the operator's entry is in the ledger.
C11_Witness ==
    /\ lastOp = Op("createRoom", "u1", 0, "Insufficient points")
    /\ users["u1"].points = 50
    /\ InitPoints \in AuthPoints("u1")
    /\ rpsRooms[1] = NoRoom
    /\ transactions = <<Entry("u1", 50 - InitPoints, "admin_points_update")>>

\* C12: createRoom and joinRoom by a disabled account fail and leave the
\* balances, the rooms and the ledger unchanged.
C12_DisabledDebitRejected ==
    [][DebitStep /\ users[lastOp'.user].disabled =>
          lastOp'.error # "" /\ DebitUnchanged]_vars

\* The step is a call of GameCard's endGame (the resolution of the game).
ResolveStep == lastOp'.op = "endVersusGame"

\* C13: once the game is 'completed' with a winner, a further resolution
\* changes neither the winner nor any other state and pays nothing.
C13_SecondResolveRejected ==
    [][ResolveStep /\ versusGames.status = "completed" /\ versusGames.winner # Null =>
          /\ versusGames' = versusGames
          /\ users' = users /\ bets' = bets /\ transactions' = transactions]_vars

\* What the bets of u pay when team w wins: stake * odds for each bet on w.
Payout(u, w) ==
    SumAmounts([i \in 1..Len(bets) |->
                  [amount |-> IF bets[i].userId = u /\ bets[i].team = w
                              THEN bets[i].amount * bets[i].odds ELSE 0]])

\* C14: the resolution of an open game credits every bettor stake * odds for
\* each of its bets on the winning team and nothing for the others, and
\* marks every bet settled.
C14_WinningBetsPaid ==
    [][ResolveStep /\ versusGames.status = "open" =>
          /\ \A u \in Users :
                users'[u].points = users[u].points + Payout(u, versusGames'.winner)
          /\ \A i \in 1..Len(bets) : bets'[i].status # "pending"]_vars

\* Betting on the game is enabled, as the card shows it.
BettingOpen == NotFalse(versusGames.bettingEnabled)

\* C15: betting that is closed is never opened again, and a game is resolved
\* only while betting is closed.
C15_LifecycleForward ==
    [][/\ ~BettingOpen => ~BettingOpen'
       /\ ResolveStep /\ versusGames.status = "open" => ~BettingOpen]_vars

\* C16: when the time is up while betting is open, betting is eventually
\* closed, and once closed with the time up it stays closed for as long as
\* the time stays up.
C16_EndTimeLock ==
    /\ (TimeUp(versusGames) /\ BettingOpen) ~> ~BettingOpen
    /\ [][TimeUp(versusGames) /\ ~BettingOpen /\ TimeUp(versusGames)'
            => ~BettingOpen']_vars

\* C17: every lock write of every timer, in whatever order they are
\* applied, sets bettingEnabled to false and changes nothing else; applied to
\* a game that is already locked it changes nothing at all.
C17_LockIdempotent ==
    [][lastOp'.op = "checkTime" =>
          /\ versusGames' = [versusGames EXCEPT !.bettingEnabled = "false"]
          /\ ~BettingOpen => versusGames' = versusGames
          /\ users' = users /\ bets' = bets /\ transactions' = transactions]_vars

\* C17 witness: the time is up, the lock write of card c1 was applied
\* earlier and the one of card c2 has just been applied: the game is as one
\* lock leaves it.
C17_Witness ==
    /\ lastOp = Op("checkTime", "c2", 0, "")
    /\ TimeUp(versusGames)
    /\ \A c \in Cards : cards[c].pending = 0 /\ cards[c].game = Prop(NewGame)
    /\ versusGames = [NewGame EXCEPT !.bettingEnabled = "false"]

\* The step applied the batch of approveUser.
ApproveStep == lastOp'.op = "approveUser" /\ lastOp'.error = ""

\* The referral_bonus entries written for referrer u.
BonusCount(u) ==
    Len(SelectSeq(transactions, LAMBDA e : e.userId = u /\ e.type = "referral_bonus"))

\* The step approves account x and gives no referral bonus.
ApprovedWithoutBonus(x) ==
    /\ users'[x].approved
    /\ \A u \in Users \ {x} : users'[u] = users[u]
    /\ transactions' = transactions

\* C18: while the referral settings have enabled = false, the approval of a
\* referral-pending account approves it and credits no bonus, appends no
\* referral and writes no referral_bonus entry.
C18_BonusGatedByEnabled ==
    [][ApproveStep /\ users[lastOp'.user].referralPending /\ ~settings.enabled =>
          ApprovedWithoutBonus(lastOp'.user)]_vars

\* C19: no approval takes a referrer's referrals list or its number of
\* bonuses above maxReferrals, and the approval of an account whose referrer
\* is at the cap gives no bonus and still approves the account.
C19_ReferralCap ==
    [][ApproveStep =>
          LET x == lastOp'.user
              ref == users[x].referrerId
          IN  /\ users[x].referralPending /\ ref # Null
                   /\ Len(users[ref].referrals) >= settings.maxReferrals
                   => ApprovedWithoutBonus(x)
              /\ \A u \in Users :
                    \/ /\ Len(users'[u].referrals) = Len(users[u].referrals)
                       /\ BonusCount(u)' = BonusCount(u)
                    \/ /\ Len(users'[u].referrals) <= settings.maxReferrals
                       /\ BonusCount(u)' <= settings.maxReferrals]_vars

\* How often account x is in the referrals list of u.
Occurrences(x, u) ==
    Cardinality({i \in 1..Len(users[u].referrals) : users[u].referrals[i] = Username(x)})

\* The referred accounts of referrer u whose bonus has been given.
Rewarded(u) == {x \in Pending : users[x].referrerId = u /\ ~users[x].referralPending}

\* C20: whatever approveUser calls ran, and however their steps interleaved,
\* a referrer has for each referred account whose bonus was given exactly one
\* bonus credit, one referral_bonus entry and one entry in its referrals
\* list, and none for the others.
C20_BonusAtMostOnce ==
    \A u \in Players :
        /\ \A x \in Pending :
              Occurrences(x, u) = IF x \in Rewarded(u) THEN 1 ELSE 0
        /\ BonusCount(u) = Cardinality(Rewarded(u))
        /\ users[u].points = InitPoints + ReferralBonus * Cardinality(Rewarded(u))


\* ------------------------------------------------------------------ C21 --
\* C21: the ledger is append-only. Every step of every handler leaves
\* the entries already in 'transactions' in place and unchanged, so the
\* entries of a deleted account are still there after deleteUser.
C21_LedgerAppendOnly ==
    [][/\ Len(transactions') >= Len(transactions)
       /\ SubSeq(transactions', 1, Len(transactions)) = transactions]_vars

\* u1 was deleted while its stake entry is on the ledger, followed by the
\* deletion entry.
C21_Witness ==
    /\ ~users["u1"].exists
    /\ \E i, j \in 1..Len(transactions) :
          /\ i < j
          /\ transactions[i] = Entry("u1", -100, "rps_stake")
          /\ transactions[j] = Entry("u1", 0, "user_deleted")

\* ------------------------------------------------------------------ C22 --
\* The number of 'rps_stake' entries of amount -stake that u has on the ledger.
StakeEntries(u, stake) ==
    Cardinality({i \in 1..Len(transactions) :
                    transactions[i] = Entry(u, -stake, "rps_stake")})

\* A step in which room r goes into play.
StartsPlaying(r) == rpsRooms[r].status # "playing" /\ rpsRooms'[r].status = "playing"

\* C22: stake reservation precedes play. In every state in which a room is
\* 'playing' hostPaid and guestPaid are true and the host and the recorded
\* guest each have an rps_stake entry of the room's stake on the ledger.
C22_PlayingIsPaid ==
    \A r \in RoomIds :
        rpsRooms[r].status = "playing" =>
            /\ rpsRooms[r].hostPaid /\ rpsRooms[r].guestPaid
            /\ rpsRooms[r].guestId # Null
            /\ StakeEntries(rpsRooms[r].hostId, rpsRooms[r].stake) >= 1
            /\ StakeEntries(rpsRooms[r].guestId, rpsRooms[r].stake) >= 1

\* C22, second half: the step that takes a room into play is the step that
\* debits the guest it records and appends the guest's rps_stake entry.
C22_ReservationPrecedesPlay ==
    /\ []C22_PlayingIsPaid
    /\ [][\A r \in RoomIds :
            StartsPlaying(r) =>
                LET g == rpsRooms'[r].guestId
                    stake == rpsRooms'[r].stake
                IN  /\ users'[g].points = users[g].points - stake
                    /\ transactions' = Append(transactions, Entry(g, -stake, "rps_stake"))
                    /\ rpsRooms'[r].guestPaid]_vars

\* u2 has just joined the room of u1, which is now in play.
C22_Witness ==
    /\ lastOp = Op("joinRoom", "u2", 1, "")
    /\ rpsRooms[1].status = "playing"
    /\ rpsRooms[1].guestId = "u2"
    /\ users["u2"].points = InitPoints - rpsRooms[1].stake

\* ------------------------------------------------------------------ C23 --
\* C23: the commit that applies the payouts of a round clears both choices
\* of the room, records the winner's name or 'Draw' in roundWinner, and
\* leaves the room in play.
C23_SettledRoundCleared ==
    [][SettleStep =>
          LET rec == SettledRound
              room == rpsRooms'[rec.roomId]
          IN  /\ room.hostChoice = Null /\ room.guestChoice = Null
              /\ room.roundWinner = rec.winner
              /\ rec.winner \in {Username(rec.hostId), Username(rec.guestId), "Draw"}
              /\ room.status = "playing"]_vars

\* ------------------------------------------------------------------ C24 --
\* C24: quitGame takes effect only when the caller is the guest of the room,
\* endGame only when the caller is its host, and ending a room that has no
\* guest credits the host's stake and nothing else.
C24_QuitByGuestEndByHost ==
    [][LET r == lastOp'.room
       IN  /\ QuitStep => lastOp'.user = rpsRooms[r].guestId
           /\ EndStep => lastOp'.user = rpsRooms[r].hostId
           /\ EndStep /\ rpsRooms[r].guestId = Null =>
                 NewEntries = <<Entry(rpsRooms[r].hostId, rpsRooms[r].stake, "rps_refund")>>]_vars

\* ------------------------------------------------------------------ C25 --
\* The sum of the ledger amounts whose type is in types.
TypeSum(types) ==
    SumAmounts(SelectSeq(transactions, LAMBDA e : e.type \in types))

\* C25: conservation of value per room. With a single room, everything
\* credited for it (rps_win, rps_draw, rps_refund) plus the house fees
\* recorded for it never exceeds the rps_stake debits taken for it.
C25_RoomConservation ==
    TypeSum({"rps_win", "rps_draw", "rps_refund", "admin_profit"})
        <= 0 - TypeSum({"rps_stake"})

\* ------------------------------------------------------------------ C26 --
\* The accounts that hold an rps_stake debit.
Debited == {transactions[i].userId :
               i \in {j \in 1..Len(transactions) : transactions[j].type = "rps_stake"}}

\* C26: a room admits at most one guest. With a single room, every account
\* that was debited a stake is the host or the recorded guest of the room,
\* so of two users who call joinRoom at most one is debited.
C26_AtMostOneGuest ==
    \A r \in RoomIds :
        rpsRooms[r].status # "absent" =>
            Debited \subseteq {rpsRooms[r].hostId, rpsRooms[r].guestId}

\* ------------------------------------------------------------------ C27 --
\* C27: toggleBetting flips the effective betting state. Called on a game
\* whose betting is enabled (bettingEnabled true or unset) it leaves betting
\* disabled; called on a game whose bettingEnabled is false it leaves
\* betting enabled.
C27_ToggleFlips ==
    [][lastOp'.op = "toggleBetting" => (BettingOpen' <=> ~BettingOpen)]_vars

\* ------------------------------------------------------------------ C28 --
\* C28: updateUserBalance sets the balance to the amount entered: right
\* after its write the account's balance of that currency equals the
\* amount, whatever was committed on the account since its read.
C28_BalanceSetToAmount ==
    [][\A a \in Sessions :
          adm[a].pc = "ub_read" /\ adm'[a].pc = "ub_written" =>
              users'[adm[a].userId][adm[a].type] = adm[a].amount]_vars

\* ------------------------------------------------------------------ C29 --
\* C29: in every state the guest of every room differs from its host, and
\* no joinRoom step is one of the room's host: the host's call returns at
\* once, debits nothing and leaves the room as it is.
C29_GuestIsNotHost ==
    /\ [](\A r \in RoomIds :
            rpsRooms[r].status # "absent" => rpsRooms[r].guestId # rpsRooms[r].hostId)
    /\ [][lastOp'.op = "joinRoom" =>
            lastOp'.user # rpsRooms[lastOp'.room].hostId]_vars

\* The host u1 has its own waiting room in its list, where u2 joined it.
C29_Witness ==
    /\ 1 \in rooms["u1"]
    /\ rpsRooms[1].hostId = "u1"
    /\ rpsRooms[1].guestId = "u2"
    /\ lastOp = Op("joinRoom", "u2", 1, "")

\* ------------------------------------------------------------------ C30 --
\* The text is a number: an optional sign followed by digits and nothing else.
IsNumber(text) ==
    LET body == IF text # <<>> /\ Head(text) \in {"-", "+"} THEN Tail(text) ELSE text
    IN  body # <<>> /\ \A i \in 1..Len(body) : IsDigit(body[i])

\* The stakes of the rooms that exist are at least the minimum.
StakesAtLeastMinimum ==
    \A r \in RoomIds : rpsRooms[r].status # "absent" => rpsRooms[r].stake >= MinStake

\* The stake of a room that exists is left as it is.
StakesKept ==
    \A r \in RoomIds : rpsRooms[r].status # "absent" => rpsRooms'[r].stake = rpsRooms[r].stake

\* C30: createRoom with a stake entered that is not a number or is below 10
\* reports an error and changes nothing, so that every room that exists has
\* a stake of at least 10, and the stake of a room never changes.
C30_MinimumStake ==
    /\ []StakesAtLeastMinimum
    /\ [][StakesKept]_vars
    /\ [][\A u \in Players :
            /\ lastOp'.op = "createRoom" /\ lastOp'.user = u
            /\ typed[u] # <<>>
            /\ ~IsNumber(typed[u]) \/ parseInt(typed[u]).value < MinStake
            => /\ lastOp'.error # ""
               /\ UNCHANGED <<users, rpsRooms, rpsRounds, transactions>>]_vars

\* C30 as the code has it: createRoom with a text entered from which parseInt
\* reads no number, or a number below 10, reports 'Minimum stake is 10 FBT'
\* and changes nothing; every room that exists has a stake of at least 10,
\* and the stake of a room never changes.
C30_MinimumStakeParsed ==
    /\ []StakesAtLeastMinimum
    /\ [][StakesKept]_vars
    /\ [][\A u \in Players :
            /\ lastOp'.op = "createRoom" /\ lastOp'.user = u
            /\ typed[u] # <<>>
            /\ parseInt(typed[u]).nan \/ parseInt(typed[u]).value < MinStake
            => /\ lastOp'.error = "Minimum stake is 10 FBT"
               /\ UNCHANGED <<users, rpsRooms, rpsRounds, transactions>>]_vars

\* u2 has opened a room with the text '15 F', and the text 'F' of u1 has
\* just been refused.
C30_Witness ==
    /\ typed["u1"] = <<"F">>
    /\ lastOp = Op("createRoom", "u1", 0, "Minimum stake is 10 FBT")
    /\ rpsRooms[1].hostId = "u2"
    /\ rpsRooms[1].stake = 15

============================================================================
